---------------------------- MODULE Spec2Model ----------------------------
(* A model of the two growable stack containers of the repository:         *)
(*   gstack_*  (src/gstack.h)   and   stack_*  (src/stack.h).              *)
(* size_t arithmetic is kept at a reduced width (SIZE_MAX = 2^4 - 1) so    *)
(* that the overflow guards, the wrap of cap and the linear growth regime  *)
(* are all reachable.  The allocator is abstract: malloc may fail or       *)
(* succeed, realloc may fail, resize in place or move the block.           *)
(* An out-of-bounds store, or a realloc of a released block, is undefined  *)
(* behaviour whose outcomes cannot be enumerated; the model stops such a   *)
(* run in the state st = "undefined".  A read through an invalid pointer   *)
(* yields an arbitrary value.                                              *)
EXTENDS Integers, Sequences, FiniteSets, TLC

VARIABLES variant, st, m, ghost, ret, allocfail, custom, owner, pc, cost, pair

\* The variables only the scripted runs use.
aux == <<pc, cost, pair>>

main == <<variant, st, m, ghost, ret, allocfail, custom, owner>>

vars == <<variant, st, m, ghost, ret, allocfail, custom, owner, pc, cost, pair>>

---------------------------------------------------------------------------
(* Platform constants and model bounds *)

SIZE_MAX == 15

BUFSIZ == 2

MaxMembSize == 2

MaxVal == 3

Variants == {"gstack", "stack"}

Values == 1..MaxVal

Indet == 0

Addrs == 1..2

NULL == 0

ReallocOutcomes == {"fail", "inplace", "moved", "freed"}

Wrap(x) == x % (SIZE_MAX + 1)

\* The largest block the allocator can return: the header block is live in
\* the same address space, so no buffer has all SIZE_MAX bytes.
MaxBlock == SIZE_MAX - 1

---------------------------------------------------------------------------
(* The allocator *)

NullPtr == [addr |-> NULL, idx |-> 0]

NullStack ==
    [data |-> NULL, size |-> 0, cap |-> 0, memb_size |-> 0,
     bytes |-> 0, live |-> FALSE, hdr |-> FALSE, mem |-> <<>>]

OtherAddr(a) == CHOOSE b \in Addrs : b # a

\* The slots of a block of n bytes after a resize of block `old`.
Resized(old, n, memb) ==
    [i \in 1..(n \div memb) |-> IF i <= Len(old) THEN old[i] ELSE Indet]

\* malloc(n): a fresh block of n bytes with indeterminate contents.
Malloc(s, n) ==
    [s EXCEPT !.data = 1, !.bytes = n, !.live = TRUE,
              !.mem = Resized(<<>>, n, s.memb_size)]

\* realloc(s.data, n) with the outcome `out`; the caller stores the result
\* in s.data only when it is non-null.  realloc(p, 0) may also release the
\* block and return NULL ("freed").
ReallocOK(out) == out \in {"inplace", "moved"}

ReallocEffect(n, out) ==
    IF n > MaxBlock \/ (out = "freed" /\ n # 0) THEN "fail" ELSE out

Realloc(s, n, out) ==
    LET eff == ReallocEffect(n, out) IN
    CASE eff = "fail"    -> s
      [] eff = "freed"   -> [s EXCEPT !.bytes = 0, !.live = FALSE, !.mem = <<>>]
      [] eff = "inplace" -> [s EXCEPT !.bytes = n,
                                      !.mem = Resized(s.mem, n, s.memb_size)]
      [] eff = "moved"   -> [s EXCEPT !.data = OtherAddr(s.data), !.bytes = n,
                                      !.mem = Resized(s.mem, n, s.memb_size)]

\* A pointer to slot idx of the block at addr is valid when that block is
\* the live one and the slot lies inside it.
InBounds(s, idx) == s.live /\ (idx + 1) * s.memb_size <= s.bytes

ValidPtr(s, p) == p.addr # NULL /\ p.addr = s.data /\ InBounds(s, p.idx)

\* The values a read through p can give.
Deref(s, p) ==
    IF ValidPtr(s, p) /\ s.mem[p.idx + 1] # Indet
    THEN {s.mem[p.idx + 1]} ELSE Values

\* memcpy(target, data, memb_size) into slot idx.
Store(s, idx, v) == [s EXCEPT !.mem[idx + 1] = v]


---------------------------------------------------------------------------
(* gstack.h *)

PushResult(s, ok, r, ub) == [m |-> s, ok |-> ok, realloc |-> r, ub |-> ub]

PopResult(s, p, r, ub) == [m |-> s, ptr |-> p, realloc |-> r, ub |-> ub]

gstack_is_full(s) == s.size = s.cap

\* Mutant: the emptiness test confused with the fullness test.
gstack_is_empty_as_full(s) == s.size = s.cap

gstack_is_empty(s) == s.size = 0

gstack_size(s) == s.size

gstack_peek(s) ==
    IF gstack_is_empty(s) THEN NullPtr
    ELSE [addr |-> s.data, idx |-> Wrap(s.size - 1)]

\* Mutant: the overflow guard on cap * memb_size left out.
gstack_create_invalid_noguard(cap, memb_size) ==
    cap = 0 \/ memb_size = 0

gstack_create_invalid(cap, memb_size) ==
    cap = 0 \/ memb_size = 0 \/ cap > SIZE_MAX \div memb_size

\* free(s) on the path where the buffer malloc failed
gstack_create_release(s) == [s EXCEPT !.hdr = FALSE]

gstack_create(cap, memb_size, hdrOK, bufOK) ==
    IF gstack_create_invalid(cap, memb_size)
    THEN [m |-> NullStack, ok |-> FALSE, mallocs |-> 0]
    ELSE IF ~hdrOK
    THEN [m |-> NullStack, ok |-> FALSE, mallocs |-> 1]
    ELSE IF bufOK
    THEN [m |-> Malloc([NullStack EXCEPT !.hdr = TRUE, !.size = 0, !.cap = cap,
                                         !.memb_size = memb_size],
                       Wrap(memb_size * cap)),
          ok |-> TRUE, mallocs |-> 2]
    ELSE [m |-> gstack_create_release([NullStack EXCEPT !.hdr = TRUE]),
          ok |-> FALSE, mallocs |-> 2]

\* Mutant: return s->size++ (the result is the old size, false on the
\* first push).
gstack_push_store_postinc(s, v, r) ==
    IF InBounds(s, s.size)
    THEN PushResult([Store(s, s.size, v) EXCEPT !.size = Wrap(s.size + 1)],
                    s.size # 0, r, FALSE)
    ELSE PushResult(s, FALSE, r, TRUE)

\* target = data + size * memb_size; memcpy; return ++s->size
gstack_push_store(s, v, r) ==
    IF InBounds(s, s.size)
    THEN PushResult([Store(s, s.size, v) EXCEPT !.size = Wrap(s.size + 1)],
                    Wrap(s.size + 1) # 0, r, FALSE)
    ELSE PushResult(s, FALSE, r, TRUE)

\* Mutant: the linear fallback of stack.h used for every growth.
gstack_push_grow_linear(s) == [s EXCEPT !.cap = Wrap(s.cap + BUFSIZ)]

\* Mutant: arithmetic growth, one slot at a time.
gstack_push_grow_by_one(s) == [s EXCEPT !.cap = Wrap(s.cap + 1)]

\* s->cap *= 2
gstack_push_grow(s) == [s EXCEPT !.cap = Wrap(s.cap * 2)]

gstack_push(s, v, out) ==
    IF s.size >= s.cap
    THEN IF s.cap > SIZE_MAX \div 2
         THEN PushResult(s, FALSE, "none", FALSE)
         ELSE LET s1 == gstack_push_grow(s) IN
              IF s1.cap > SIZE_MAX \div s1.memb_size
              THEN PushResult(s1, FALSE, "none", FALSE)
              ELSE LET n == Wrap(s1.cap * s1.memb_size) IN
                   IF ~s1.live
                   THEN PushResult(s1, FALSE, "none", TRUE)
                   ELSE IF ~ReallocOK(ReallocEffect(n, out))
                   THEN PushResult(Realloc(s1, n, out), FALSE,
                                   ReallocEffect(n, out), FALSE)
                   ELSE gstack_push_store(Realloc(s1, n, out), v,
                                          ReallocEffect(n, out))
    ELSE gstack_push_store(s, v, "none")

\* Mutant: the test for a nonzero size is missing.
gstack_pop_shrinks_at_zero(s) == s.size <= s.cap \div 4

\* Mutant: the shrink threshold equals the shrink target, one half.
gstack_pop_shrinks_half(s) == s.size # 0 /\ s.size <= s.cap \div 2

\* Mutant: the shrink threshold is the whole capacity.
gstack_pop_shrinks_eager(s) == s.size # 0 /\ s.size <= s.cap

\* if (s->size && (s->size <= s->cap / 4))
gstack_pop_shrinks(s) == s.size # 0 /\ s.size <= s.cap \div 4

\* if (s->cap % 2) s->cap += 1;
gstack_pop_round(s) ==
    IF s.cap % 2 = 1 THEN [s EXCEPT !.cap = Wrap(s.cap + 1)] ELSE s

\* return (char *) s->data + (s->size * s->memb_size), read after the realloc
gstack_pop_top(before, after) == [addr |-> after.data, idx |-> after.size]

gstack_pop(s, out) ==
    IF gstack_is_empty(s)
    THEN PopResult(s, NullPtr, "none", FALSE)
    ELSE LET s1 == [s EXCEPT !.size = Wrap(s.size - 1)] IN
         IF gstack_pop_shrinks(s1)
         THEN LET new_cap == s1.cap \div 2
                  s2 == gstack_pop_round(s1)
                  n == Wrap(s2.memb_size * new_cap)
                  eff == ReallocEffect(n, out)
                  s3 == Realloc(s2, n, out)
                  s4 == IF ReallocOK(eff) THEN [s3 EXCEPT !.cap = new_cap] ELSE s3
              IN IF ~s1.live
                 THEN PopResult(s2, NullPtr, "none", TRUE)
                 ELSE PopResult(s4, gstack_pop_top(s1, s4), eff, FALSE)
         ELSE PopResult(s1, gstack_pop_top(s1, s1), "none", FALSE)

\* The routine each allocator call of gstack.h names: one of the
\* GSTACK_MALLOC / GSTACK_REALLOC / GSTACK_FREE macros, or the plain
\* malloc / realloc / free.
gstack_create_malloc_via == "macro"

gstack_create_free_via == "plain"

gstack_push_realloc_via == "macro"

gstack_pop_realloc_via == "plain"

gstack_destroy_free_via == "macro"

\* free(s->data); free(s)
gstack_destroy(s) ==
    [s EXCEPT !.bytes = 0, !.live = FALSE, !.hdr = FALSE, !.mem = <<>>]

---------------------------------------------------------------------------
(* stack.h *)

stack_is_full(s) == s.size = s.cap

stack_is_empty(s) == s.size = 0

stack_size(s) == s.size

stack_peek(s) ==
    IF stack_is_empty(s) THEN NullPtr
    ELSE [addr |-> s.data, idx |-> Wrap(s.size - 1)]

stack_create_invalid(cap, memb_size) ==
    cap = 0 \/ memb_size = 0 \/ cap > SIZE_MAX \div memb_size

\* free(s) on the path where the buffer malloc failed
stack_create_release(s) == [s EXCEPT !.hdr = FALSE]

stack_create(cap, memb_size, hdrOK, bufOK) ==
    IF stack_create_invalid(cap, memb_size)
    THEN [m |-> NullStack, ok |-> FALSE, mallocs |-> 0]
    ELSE IF ~hdrOK
    THEN [m |-> NullStack, ok |-> FALSE, mallocs |-> 1]
    ELSE IF bufOK
    THEN [m |-> Malloc([NullStack EXCEPT !.hdr = TRUE, !.cap = cap, !.size = 0,
                                         !.memb_size = memb_size],
                       Wrap(memb_size * cap)),
          ok |-> TRUE, mallocs |-> 2]
    ELSE [m |-> stack_create_release([NullStack EXCEPT !.hdr = TRUE]),
          ok |-> FALSE, mallocs |-> 2]

\* memcpy(target, data, s->memb_size); return !!++s->size
stack_push_store(s, v, r) ==
    IF InBounds(s, s.size)
    THEN PushResult([Store(s, s.size, v) EXCEPT !.size = Wrap(s.size + 1)],
                    Wrap(s.size + 1) # 0, r, FALSE)
    ELSE PushResult(s, FALSE, r, TRUE)

\* Mutant: no linear fallback, the push is refused as in gstack.h.
stack_push_linear_refused(s) == TRUE

\* The linear fallback cannot grow: s->cap + BUFSIZ < s->cap
stack_push_linear_overflows(s) == Wrap(s.cap + BUFSIZ) < s.cap

stack_push_grow(s) ==
    IF s.cap > SIZE_MAX \div 2
    THEN [s EXCEPT !.cap = Wrap(s.cap + BUFSIZ)]
    ELSE [s EXCEPT !.cap = Wrap(s.cap * 2)]

stack_push(s, v, out) ==
    IF s.size >= s.cap
    THEN IF s.cap > SIZE_MAX \div 2 /\ stack_push_linear_overflows(s)
         THEN PushResult(s, FALSE, "none", FALSE)
         ELSE LET s1 == stack_push_grow(s) IN
              IF s1.cap > SIZE_MAX \div s1.memb_size
              THEN PushResult(s1, FALSE, "none", FALSE)
              ELSE LET n == Wrap(s1.cap * s1.memb_size) IN
                   IF ~s1.live
                   THEN PushResult(s1, FALSE, "none", TRUE)
                   ELSE IF ~ReallocOK(ReallocEffect(n, out))
                   THEN PushResult(Realloc(s1, n, out), FALSE,
                                   ReallocEffect(n, out), FALSE)
                   ELSE stack_push_store(Realloc(s1, n, out), v,
                                         ReallocEffect(n, out))
    ELSE stack_push_store(s, v, "none")

stack_pop_shrinks(s) == s.size # 0 /\ s.size <= s.cap \div 4

\* void *const top = (char *) s->data + (s->size * s->memb_size), computed
\* before the realloc
stack_pop_top(before, after) == [addr |-> before.data, idx |-> before.size]

stack_pop(s, out) ==
    IF stack_is_empty(s)
    THEN PopResult(s, NullPtr, "none", FALSE)
    ELSE LET s1 == [s EXCEPT !.size = Wrap(s.size - 1)] IN
         IF stack_pop_shrinks(s1)
         THEN LET n == Wrap((s1.cap \div 2) * s1.memb_size)
                  eff == ReallocEffect(n, out)
                  s3 == Realloc(s1, n, out)
                  s4 == IF ReallocOK(eff)
                        THEN [s3 EXCEPT !.cap = s3.cap \div 2] ELSE s3
              IN IF ~s1.live
                 THEN PopResult(s1, NullPtr, "none", TRUE)
                 ELSE PopResult(s4, stack_pop_top(s1, s4), eff, FALSE)
         ELSE PopResult(s1, stack_pop_top(s1, s1), "none", FALSE)

\* The routine each allocator call of stack.h names.
stack_create_malloc_via == "macro"

stack_create_free_via == "plain"

stack_push_realloc_via == "macro"

stack_pop_realloc_via == "plain"

stack_destroy_free_via == "macro"

stack_destroy(s) ==
    [s EXCEPT !.bytes = 0, !.live = FALSE, !.hdr = FALSE, !.mem = <<>>]

---------------------------------------------------------------------------
(* The state machine: one stack of either variant, driven by its caller *)

IsG == variant = "gstack"

\* What the last call was given and what it returned: op, its arguments
\* (arg1, arg2), its result (ok: true / non-NULL; ptr; n), the value read
\* through a returned pointer (val), and what its allocator calls did:
\* realloc (the outcome), failed (one returned NULL), plain (one named a
\* plain libc routine instead of the macro), cross (a block of the custom
\* allocator was handed to a default routine).
NoRet == [op |-> "none", arg1 |-> 0, arg2 |-> 0, ok |-> FALSE, ptr |-> NullPtr,
          val |-> 0, n |-> 0, realloc |-> "none", failed |-> FALSE,
          plain |-> FALSE, cross |-> FALSE]

\* The caller pushes a value that identifies the position it goes to, as
\* the test drivers do (push(&i)).
PushValue(s) == (s.size % MaxVal) + 1

Top(g) == g[Len(g)]

Front(g) == SubSeq(g, 1, Len(g) - 1)

\* The allocator a call reaches: the macros expand to the custom routines
\* when they are configured, a plain call is always the default allocator.
Family(via) == IF via = "macro" /\ custom THEN "custom" ELSE "default"

NoOwner == [hdr |-> "none", buf |-> "none"]

\* A block of family fam handed to the routine named by via.
Foreign(fam, via) == fam # Family(via)

Cross(fam, via) == fam = "custom" /\ Family(via) = "default"

CreateMallocVia == IF IsG THEN gstack_create_malloc_via ELSE stack_create_malloc_via

CreateFreeVia == IF IsG THEN gstack_create_free_via ELSE stack_create_free_via

PushReallocVia == IF IsG THEN gstack_push_realloc_via ELSE stack_push_realloc_via

PopReallocVia == IF IsG THEN gstack_pop_realloc_via ELSE stack_pop_realloc_via

DestroyFreeVia == IF IsG THEN gstack_destroy_free_via ELSE stack_destroy_free_via

\* Handing a block to the other allocator is undefined: it may go through
\* unnoticed or end the run.
After(foreign, ub, normal) ==
    IF ub THEN {"undefined"}
    ELSE IF foreign THEN {normal, "undefined"} ELSE {normal}

\* A block is released only by the free of the allocator it came from: one
\* handed to the other allocator's free stays allocated in its own.
Unreleased(s, hdrForeign, bufForeign) ==
    [s EXCEPT !.hdr = hdrForeign, !.live = bufForeign]

InitMain ==
    /\ variant \in Variants
    /\ custom \in BOOLEAN
    /\ st = "none"
    /\ m = NullStack
    /\ ghost = <<>>
    /\ ret = NoRet
    /\ allocfail = FALSE
    /\ owner = NoOwner

CreateWith(caps, sizes, oks) ==
    /\ st = "none"
    /\ \E c \in caps, ms \in sizes, hdrOK \in oks, bufOK \in oks :
         LET fits == Wrap(ms * c) <= MaxBlock
             r == IF IsG THEN gstack_create(c, ms, hdrOK, bufOK /\ fits)
                         ELSE stack_create(c, ms, hdrOK, bufOK /\ fits)
             fam == Family(CreateMallocVia)
             freed == r.mallocs = 2 /\ ~r.ok
         IN
         /\ m' = IF freed
                 THEN Unreleased(r.m, Foreign(fam, CreateFreeVia), FALSE)
                 ELSE r.m
         /\ st' \in After(freed /\ Foreign(fam, CreateFreeVia), FALSE,
                          IF r.ok THEN "live" ELSE "none")
         /\ owner' = IF r.ok THEN [hdr |-> fam, buf |-> fam] ELSE NoOwner
         /\ ret' = [NoRet EXCEPT !.op = "create", !.arg1 = c, !.arg2 = ms,
                                 !.ok = r.ok, !.n = r.mallocs,
                                 !.failed = (r.mallocs > 0 /\ ~r.ok),
                                 !.plain = (r.mallocs > 0 /\ CreateMallocVia = "plain")
                                           \/ (freed /\ CreateFreeVia = "plain"),
                                 !.cross = freed /\ Cross(fam, CreateFreeVia)]
         /\ allocfail' = (r.ok /\ allocfail)
    /\ ghost' = <<>>
    /\ UNCHANGED <<variant, custom>>

PushWith(v, outs) ==
    /\ st = "live"
    /\ \E out \in outs :
         LET r == IF IsG THEN gstack_push(m, v, out) ELSE stack_push(m, v, out)
             called == r.realloc # "none"
         IN
         /\ m' = r.m
         /\ st' \in After(called /\ Foreign(owner.buf, PushReallocVia), r.ub, "live")
         /\ owner' = IF ReallocOK(r.realloc)
                     THEN [owner EXCEPT !.buf = Family(PushReallocVia)] ELSE owner
         /\ ghost' = IF r.ok THEN Append(ghost, v) ELSE ghost
         /\ ret' = [NoRet EXCEPT !.op = "push", !.arg1 = v, !.ok = r.ok,
                                 !.realloc = r.realloc,
                                 !.failed = (r.realloc \in {"fail", "freed"}),
                                 !.plain = called /\ PushReallocVia = "plain",
                                 !.cross = called /\ Cross(owner.buf, PushReallocVia)]
         /\ allocfail' = (allocfail \/ r.realloc \in {"fail", "freed"})
    /\ UNCHANGED <<variant, custom>>

PopWith(outs) ==
    /\ st = "live"
    /\ \E out \in outs :
         LET r == IF IsG THEN gstack_pop(m, out) ELSE stack_pop(m, out)
             called == r.realloc # "none"
         IN
         /\ m' = r.m
         /\ st' \in After(called /\ Foreign(owner.buf, PopReallocVia), r.ub, "live")
         /\ owner' = IF ReallocOK(r.realloc)
                     THEN [owner EXCEPT !.buf = Family(PopReallocVia)] ELSE owner
         /\ ghost' = IF r.ptr # NullPtr /\ ghost # <<>> THEN Front(ghost) ELSE ghost
         /\ \E x \in (IF r.ptr = NullPtr THEN {0} ELSE Deref(r.m, r.ptr)) :
              ret' = [NoRet EXCEPT !.op = "pop", !.ok = (r.ptr # NullPtr),
                                   !.ptr = r.ptr, !.val = x,
                                   !.realloc = r.realloc,
                                   !.failed = (r.realloc \in {"fail", "freed"}),
                                   !.plain = called /\ PopReallocVia = "plain",
                                   !.cross = called /\ Cross(owner.buf, PopReallocVia)]
         /\ allocfail' = (allocfail \/ r.realloc \in {"fail", "freed"})
    /\ UNCHANGED <<variant, custom>>

PeekCall ==
    /\ st = "live"
    /\ LET p == IF IsG THEN gstack_peek(m) ELSE stack_peek(m) IN
       \E x \in (IF p = NullPtr THEN {0} ELSE Deref(m, p)) :
         ret' = [NoRet EXCEPT !.op = "peek", !.ok = (p # NullPtr), !.ptr = p,
                              !.val = x]
    /\ UNCHANGED <<variant, st, m, ghost, allocfail, custom, owner>>

IsFullCall ==
    /\ st = "live"
    /\ ret' = [NoRet EXCEPT !.op = "is_full",
                 !.ok = IF IsG THEN gstack_is_full(m) ELSE stack_is_full(m)]
    /\ UNCHANGED <<variant, st, m, ghost, allocfail, custom, owner>>

IsEmptyCall ==
    /\ st = "live"
    /\ ret' = [NoRet EXCEPT !.op = "is_empty",
                 !.ok = IF IsG THEN gstack_is_empty(m) ELSE stack_is_empty(m)]
    /\ UNCHANGED <<variant, st, m, ghost, allocfail, custom, owner>>

SizeCall ==
    /\ st = "live"
    /\ ret' = [NoRet EXCEPT !.op = "size",
                 !.n = IF IsG THEN gstack_size(m) ELSE stack_size(m)]
    /\ UNCHANGED <<variant, st, m, ghost, allocfail, custom, owner>>

DestroyCall ==
    /\ st = "live"
    /\ m' = Unreleased(IF IsG THEN gstack_destroy(m) ELSE stack_destroy(m),
                        m.hdr /\ Foreign(owner.hdr, DestroyFreeVia),
                        m.live /\ Foreign(owner.buf, DestroyFreeVia))
    /\ st' \in After(Foreign(owner.buf, DestroyFreeVia)
                       \/ Foreign(owner.hdr, DestroyFreeVia),
                     ~m.live \/ ~m.hdr, "destroyed")
    /\ owner' = NoOwner
    /\ ret' = [NoRet EXCEPT !.op = "destroy",
                 !.plain = DestroyFreeVia = "plain",
                 !.cross = Cross(owner.buf, DestroyFreeVia)
                           \/ Cross(owner.hdr, DestroyFreeVia)]
    /\ UNCHANGED <<variant, ghost, allocfail, custom>>

\* The cost of a run of pushes: c the capacity the stack was created with,
\* n the pushes made, reallocs the growth reallocations, copied the elements
\* they moved to a new block; steady while every push has succeeded and every
\* growth was a doubling.
NoCost == [c |-> 0, n |-> 0, copied |-> 0, reallocs |-> 0, steady |-> TRUE]

\* What a call returned to its caller: ok (true / non-NULL), n (a size) and
\* vals, the values a read through a returned pointer can give.
Returned(ok, n, vals) == [ok |-> ok, n |-> n, vals |-> vals]

NoReturn == Returned(FALSE, 0, {})

\* A gstack (g) and a Stack (s) driven side by side, with what the last
\* call (op) returned from each (rg, rs); low while no capacity has
\* exceeded SIZE_MAX / 2.
NoPair == [st |-> "none", g |-> NullStack, s |-> NullStack, op |-> "none",
           rg |-> NoReturn, rs |-> NoReturn, low |-> TRUE]

InitAux == pc = 0 /\ cost = NoCost /\ pair = NoPair

Init == InitMain /\ InitAux

Create == CreateWith(0..SIZE_MAX, 0..MaxMembSize, BOOLEAN) /\ UNCHANGED aux

Push == PushWith(PushValue(m), ReallocOutcomes) /\ UNCHANGED aux

Pop == PopWith(ReallocOutcomes) /\ UNCHANGED aux

Peek == PeekCall /\ UNCHANGED aux

IsFull == IsFullCall /\ UNCHANGED aux

IsEmpty == IsEmptyCall /\ UNCHANGED aux

Size == SizeCall /\ UNCHANGED aux

Destroy == DestroyCall /\ UNCHANGED aux

Next ==
    \/ Create
    \/ Push
    \/ Pop
    \/ Peek
    \/ IsFull
    \/ IsEmpty
    \/ Size
    \/ Destroy

Spec == Init /\ [][Next]_vars

---------------------------------------------------------------------------
(* The scripted run of the walk-through: create with capacity 4, push        *)
(* 1, 2, 3, 4, 5, pop five times, every allocation succeeding; the queries   *)
(* may be called at any point.  pc counts the calls made.                    *)

SucceedingOutcomes == {"inplace", "moved"}

ScCreate ==
    /\ pc = 0
    /\ CreateWith({4}, {1}, {TRUE})
    /\ pc' = 1
    /\ UNCHANGED <<cost, pair>>

ScPush ==
    /\ pc \in 1..5
    /\ PushWith(pc, SucceedingOutcomes)
    /\ pc' = pc + 1
    /\ UNCHANGED <<cost, pair>>

ScPop ==
    /\ pc \in 6..10
    /\ PopWith(SucceedingOutcomes)
    /\ pc' = pc + 1
    /\ UNCHANGED <<cost, pair>>

ScPeek == pc >= 1 /\ PeekCall /\ UNCHANGED aux

ScIsFull == pc >= 1 /\ IsFullCall /\ UNCHANGED aux

ScSize == pc >= 1 /\ SizeCall /\ UNCHANGED aux

NextScenario ==
    \/ ScCreate
    \/ ScPush
    \/ ScPop
    \/ ScPeek
    \/ ScIsFull
    \/ ScSize

SpecScenario == Init /\ [][NextScenario]_vars

---------------------------------------------------------------------------
(* A run of pushes with no pops on a fresh stack, every realloc that can     *)
(* succeed succeeding, with the cost of the growth reallocations counted.    *)

\* realloc copies the old contents when it returns a new block: the s.size
\* elements of the full buffer.
Charged(k, s, r) ==
    IF ~r.ok THEN [k EXCEPT !.steady = FALSE]
    ELSE [k EXCEPT !.n = @ + 1,
                   !.reallocs = @ + (IF r.realloc # "none" THEN 1 ELSE 0),
                   !.copied = @ + (IF r.realloc = "moved" THEN s.size ELSE 0),
                   !.steady = @ /\ (r.realloc # "none" => s.cap <= SIZE_MAX \div 2)]

GrCreate ==
    /\ CreateWith(1..SIZE_MAX, 1..MaxMembSize, {TRUE})
    /\ cost' = [NoCost EXCEPT !.c = m'.cap]
    /\ UNCHANGED <<pc, pair>>

GrPush ==
    /\ PushWith(PushValue(m), SucceedingOutcomes)
    /\ cost' = Charged(cost, m, ret')
    /\ UNCHANGED <<pc, pair>>

NextGrow ==
    \/ GrCreate
    \/ GrPush

SpecGrow == Init /\ [][NextGrow]_vars

---------------------------------------------------------------------------
(* The two variants side by side: the same create arguments, the same calls  *)
(* and the same allocator outcomes go to a gstack and to a Stack, for as     *)
(* long as no capacity has exceeded SIZE_MAX / 2.                            *)

Low(s) == s.cap <= SIZE_MAX \div 2

Pointed(s, p) == IF p = NullPtr THEN NoReturn ELSE Returned(TRUE, 0, Deref(s, p))

PairAfter(op, gm, sm, gr, sr, state) ==
    [st |-> state, g |-> gm, s |-> sm, op |-> op, rg |-> gr, rs |-> sr,
     low |-> pair.low /\ Low(gm) /\ Low(sm)]

PairCreate ==
    /\ pair.st = "none"
    /\ \E c \in 0..SIZE_MAX, ms \in 0..MaxMembSize, hdrOK \in BOOLEAN, bufOK \in BOOLEAN :
         LET fits == Wrap(ms * c) <= MaxBlock
             g == gstack_create(c, ms, hdrOK, bufOK /\ fits)
             s == stack_create(c, ms, hdrOK, bufOK /\ fits)
         IN pair' = [PairAfter("create", g.m, s.m, Returned(g.ok, 0, {}),
                               Returned(s.ok, 0, {}),
                               IF g.ok /\ s.ok THEN "live" ELSE "none")
                       EXCEPT !.low = Low(g.m) /\ Low(s.m)]
    /\ UNCHANGED <<main, pc, cost>>

PairPush ==
    /\ pair.st = "live" /\ pair.low
    /\ \E out \in ReallocOutcomes :
         LET v == PushValue(pair.g)
             g == gstack_push(pair.g, v, out)
             s == stack_push(pair.s, v, out)
         IN pair' = PairAfter("push", g.m, s.m, Returned(g.ok, 0, {}),
                              Returned(s.ok, 0, {}),
                              IF g.ub \/ s.ub THEN "undefined" ELSE "live")
    /\ UNCHANGED <<main, pc, cost>>

PairPop ==
    /\ pair.st = "live" /\ pair.low
    /\ \E out \in ReallocOutcomes :
         LET g == gstack_pop(pair.g, out)
             s == stack_pop(pair.s, out)
         IN pair' = PairAfter("pop", g.m, s.m, Pointed(g.m, g.ptr),
                              Pointed(s.m, s.ptr),
                              IF g.ub \/ s.ub THEN "undefined" ELSE "live")
    /\ UNCHANGED <<main, pc, cost>>

PairPeek ==
    /\ pair.st = "live" /\ pair.low
    /\ pair' = PairAfter("peek", pair.g, pair.s,
                         Pointed(pair.g, gstack_peek(pair.g)),
                         Pointed(pair.s, stack_peek(pair.s)), "live")
    /\ UNCHANGED <<main, pc, cost>>

PairSize ==
    /\ pair.st = "live" /\ pair.low
    /\ pair' = PairAfter("size", pair.g, pair.s,
                         Returned(FALSE, gstack_size(pair.g), {}),
                         Returned(FALSE, stack_size(pair.s), {}), "live")
    /\ UNCHANGED <<main, pc, cost>>

PairIsFull ==
    /\ pair.st = "live" /\ pair.low
    /\ pair' = PairAfter("is_full", pair.g, pair.s,
                         Returned(gstack_is_full(pair.g), 0, {}),
                         Returned(stack_is_full(pair.s), 0, {}), "live")
    /\ UNCHANGED <<main, pc, cost>>

PairIsEmpty ==
    /\ pair.st = "live" /\ pair.low
    /\ pair' = PairAfter("is_empty", pair.g, pair.s,
                         Returned(gstack_is_empty(pair.g), 0, {}),
                         Returned(stack_is_empty(pair.s), 0, {}), "live")
    /\ UNCHANGED <<main, pc, cost>>

NextPair ==
    \/ PairCreate
    \/ PairPush
    \/ PairPop
    \/ PairPeek
    \/ PairSize
    \/ PairIsFull
    \/ PairIsEmpty

SpecPair == Init /\ [][NextPair]_vars

---------------------------------------------------------------------------
(* Properties *)

Live == st = "live"

SizeOf(s) == IF IsG THEN gstack_size(s) ELSE stack_size(s)

IsEmptyOf(s) == IF IsG THEN gstack_is_empty(s) ELSE stack_is_empty(s)

IsFullOf(s) == IF IsG THEN gstack_is_full(s) ELSE stack_is_full(s)

PeekOf(s) == IF IsG THEN gstack_peek(s) ELSE stack_peek(s)

\* The step is a call of pop / peek / push that returned normally.
PopStep == ret'.op = "pop" /\ Live /\ st' = "live"

PeekStep == ret'.op = "peek" /\ Live

PushStep == ret'.op = "push" /\ Live /\ st' = "live"

\* C1: LIFO order.  While every allocation has succeeded, the value read
\* through a non-NULL pop result is the most recently pushed element not yet
\* popped, and peek reads that same element and removes nothing.
C1_LIFO ==
    [][/\ (PopStep /\ ret'.ok /\ ~allocfail' /\ ghost # <<>>)
            => ret'.val = Top(ghost)
       /\ (PeekStep /\ ret'.ok /\ ~allocfail /\ ghost # <<>>)
            => (ret'.val = Top(ghost) /\ m' = m)]_vars

\* C2: a push that fails on a full stack returns false and leaves size,
\* capacity, buffer and elements exactly as they were.
C2_FailedPushUnchanged ==
    [][(PushStep /\ IsFullOf(m) /\ ~ret'.ok) => m' = m]_vars

\* C3: between create and destroy the buffer is non-null, live and at least
\* capacity * element_size bytes long.
C3_BufferValid ==
    Live => (m.data # NULL /\ m.live /\ m.bytes >= m.cap * m.memb_size)

\* C4: size() is the number of successful pushes minus the number of
\* non-empty pops (the length of the ghost stack), and is_empty() holds
\* exactly when size() is 0.
C4_SizeCounts ==
    Live => (SizeOf(m) = Len(ghost) /\ (IsEmptyOf(m) <=> Len(ghost) = 0))

C4_Witness ==
    /\ Live /\ ret.op = "pop" /\ ret.ok /\ ret.realloc = "fail"
    /\ Len(ghost) = 2 /\ allocfail /\ m.cap > 4

\* C5: pop on an empty stack returns NULL, attempts no reallocation and
\* changes nothing; peek on an empty stack returns NULL.
C5_EmptyPop ==
    [][/\ (PopStep /\ ghost = <<>>)
            => (ret'.ptr = NullPtr /\ ~ret'.ok /\ ret'.realloc = "none" /\ m' = m)
       /\ (PeekStep /\ ghost = <<>>)
            => (ret'.ptr = NullPtr /\ ~ret'.ok /\ m' = m)]_vars

C5_Witness ==
    /\ Live /\ ret.op = "pop" /\ ~ret.ok /\ ret.ptr = NullPtr
    /\ ghost = <<>> /\ m.cap >= 4 /\ Len(m.mem) >= 1 /\ m.mem[1] # Indet

\* C6: create fails without allocating when cap = 0, memb_size = 0 or
\* cap * memb_size exceeds SIZE_MAX; otherwise, when both allocations
\* succeed, the stack has length 0, capacity cap and a buffer of exactly
\* cap * memb_size bytes.
C6_Create ==
    ret.op = "create" =>
      IF ret.arg1 = 0 \/ ret.arg2 = 0 \/ ret.arg1 * ret.arg2 > SIZE_MAX
      THEN ~ret.ok /\ ret.n = 0 /\ st = "none" /\ ~m.live /\ ~m.hdr
      ELSE ~ret.failed =>
             /\ ret.ok /\ Live /\ m.live /\ m.hdr /\ m.data # NULL
             /\ m.size = 0 /\ m.cap = ret.arg1 /\ m.memb_size = ret.arg2
             /\ m.bytes = ret.arg1 * ret.arg2

\* create(SIZE_MAX - 1, 2): the product overflows, the call fails.
C6_Witness ==
    ret.op = "create" /\ ret.arg1 = SIZE_MAX - 1 /\ ret.arg2 = 2 /\ ~ret.ok

\* C7: capacity * element_size never exceeds SIZE_MAX.
C7_NoOverflow ==
    Live => m.cap * m.memb_size <= SIZE_MAX

\* C8: when the shrink reallocation of pop fails, pop still returns the
\* removed element and capacity and buffer are what they were before.
C8_FailedShrink ==
    [][(PopStep /\ ret'.realloc = "fail")
          => /\ ret'.ok /\ ret'.val = Top(ghost)
             /\ m'.cap = m.cap /\ m'.data = m.data /\ m'.bytes = m.bytes
             /\ m'.mem = m.mem]_vars

\* C9: the pointer a non-empty pop returns points into the live buffer, at
\* the slot that held the removed element.
C9_PopPointerLive ==
    (Live /\ ret.op = "pop" /\ ret.ok)
       => (ValidPtr(m, ret.ptr) /\ ret.ptr.idx = m.size)

\* C10: the value read through peek() right before a pop() is the value
\* read through the pointer that pop() returns.
C10_PeekThenPop ==
    [][(PopStep /\ ret'.ok) => Deref(m, PeekOf(m)) = {ret'.val}]_vars

\* C11: with custom allocate / reallocate / free routines configured, every
\* allocator call of create, push, pop and destroy goes through them, and
\* no block of the custom allocator is handed to the default realloc or
\* free.
C11_CustomAllocator ==
    custom => (~ret.plain /\ ~ret.cross)

\* C12: in every state of a created stack 0 <= length <= capacity and
\* capacity >= 1, whatever the allocator did.
C12_LengthWithinCapacity ==
    Live => (0 <= m.size /\ m.size <= m.cap /\ m.cap >= 1)

\* A pop of gstack.h whose shrink failed on an odd capacity, after an
\* earlier allocation failure: the capacity is now above the buffer.
C12_Witness ==
    /\ Live /\ ret.op = "pop" /\ ret.realloc = "fail"
    /\ m.bytes < m.cap * m.memb_size /\ m.size >= 1

C14_NoLeak ==
    /\ st \in {"none", "destroyed"} => (~m.hdr /\ ~m.live /\ m.bytes = 0)
    /\ st = "live" => (m.hdr /\ m.live)
    /\ (st = "none" /\ ret.op = "create") => ~ret.ok

\* The capacity a growing push asks for: doubled while that cannot wrap,
\* else increased by the fixed increment.
GrownCap(s) == IF s.cap <= SIZE_MAX \div 2 THEN 2 * s.cap ELSE s.cap + BUFSIZ

GrowthOverflows(s) ==
    GrownCap(s) > SIZE_MAX \/ GrownCap(s) * s.memb_size > SIZE_MAX

\* C15: a push on a full stack whose reallocation succeeds sets the capacity
\* to 2 * capacity when capacity <= SIZE_MAX / 2 and to capacity plus the
\* fixed increment otherwise; it is refused only when that capacity or its
\* size in bytes overflows.  A push on a non-full stack keeps the capacity.
C15_GrowthPolicy ==
    [][/\ (PushStep /\ m.size = m.cap)
            => /\ ReallocOK(ret'.realloc) => m'.cap = GrownCap(m)
               /\ ret'.realloc = "none" => GrowthOverflows(m)
       /\ (PushStep /\ m.size < m.cap) => m'.cap = m.cap]_vars

\* C15 amended: as C15 for stack_push; gstack_push has no linear growth and
\* refuses, without reallocating, every push on a full stack whose capacity
\* exceeds SIZE_MAX / 2.  In both, the push calls realloc exactly when it
\* is not refused, and succeeds when realloc does.
C15_GrowthPolicyAmended ==
    [][/\ (PushStep /\ m.size = m.cap)
            => LET refused == \/ GrowthOverflows(m)
                              \/ IsG /\ m.cap > SIZE_MAX \div 2
               IN /\ ReallocOK(ret'.realloc)
                       => (ret'.ok /\ m'.cap = GrownCap(m))
                  /\ ret'.realloc = "none" <=> refused
                  /\ refused => ~ret'.ok
       /\ (PushStep /\ m.size < m.cap)
            => (ret'.ok /\ ret'.realloc = "none" /\ m'.cap = m.cap)]_vars

\* stack_push has grown a full stack of capacity SIZE_MAX / 2 + 1 by BUFSIZ.
C15_Witness ==
    /\ Live /\ ~IsG /\ ret.op = "push" /\ ret.ok /\ ReallocOK(ret.realloc)
    /\ m.cap = SIZE_MAX \div 2 + 1 + BUFSIZ /\ m.size = m.cap - BUFSIZ + 1

\* C16: a pop that shrinks the buffer successfully leaves half the old
\* capacity rounded up: capacity / 2 for an even capacity, capacity / 2 + 1
\* for an odd one.
C16_ShrinkRoundsUp ==
    [][(PopStep /\ ReallocOK(ret'.realloc))
          => m'.cap = IF m.cap % 2 = 0 THEN m.cap \div 2
                                       ELSE m.cap \div 2 + 1]_vars

C18_NoThrashing ==
    [][/\ (PopStep /\ ReallocOK(ret'.realloc))
            => (m'.size <= m'.cap \div 2 /\ m'.size < m'.cap)
       /\ (PushStep /\ ret.op = "pop" /\ ReallocOK(ret.realloc))
            => (ret'.ok /\ ret'.realloc = "none" /\ m'.cap = m.cap)
       /\ (PopStep /\ ret.op = "push" /\ ReallocOK(ret.realloc))
            => (ret'.realloc = "none" /\ m'.cap = m.cap)]_vars

\* A shrinking pop has left the size exactly at half the new capacity.
C18_Witness ==
    /\ Live /\ ret.op = "pop" /\ ret.ok /\ ReallocOK(ret.realloc)
    /\ m.size * 2 = m.cap /\ m.bytes = m.cap * m.memb_size

\* C19: after N >= 1 successful pushes in a row on a fresh stack created
\* with capacity c, every growth so far a doubling, the growth reallocations
\* have copied fewer than 2 * N elements in all, and there were at most
\* ceil(log2(N / c)) of them: none while N <= c, else k with
\* c * 2^(k - 1) < N.
C19_AmortizedGrowth ==
    (Live /\ cost.steady /\ cost.n >= 1)
       => /\ cost.n = m.size
          /\ cost.copied < 2 * cost.n
          /\ IF cost.n <= cost.c THEN cost.reallocs = 0
             ELSE cost.c * 2^(cost.reallocs - 1) < cost.n

\* Capacity 1 grown three times, to 8, every realloc moving the block:
\* 1 + 2 + 4 elements copied for 5 pushes.
C19_Witness ==
    /\ Live /\ cost.steady /\ cost.c = 1 /\ cost.n = 5
    /\ cost.reallocs = 3 /\ cost.copied = 7 /\ m.cap = 8

\* C20: run side by side on the same create arguments, calls and
\* allocator outcomes, with no capacity above SIZE_MAX / 2, the two variants
\* return the same from every call and keep the same size and capacity.
C20_VariantsEquivalent ==
    (pair.st = "live" /\ pair.low)
       => /\ pair.rg = pair.rs
          /\ pair.g.size = pair.s.size
          /\ pair.g.cap = pair.s.cap

===========================================================================
